---- MODULE Spec2Model ----
(***************************************************************************)
(* Task orchestration engine of devmind (src/agents/task_manager).         *)
(*                                                                         *)
(* The session state is the YaverState dictionary that task_manager_node   *)
(* and run_iteration_cycle read and update; the forge (pull request and    *)
(* its comments), the generator and the file system are the environment:   *)
(* every answer they can give is a nondeterministic input of the call.     *)
(***************************************************************************)
EXTENDS Integers, Sequences, FiniteSets, TLC

VARIABLES
    tasks,            \* state["tasks"]: the task list, in creation order
    iteration_count,  \* state["iteration_count"]
    should_continue,  \* state["should_continue"]
    staged_files,     \* state["staged_files"]: paths written by the applier
    completed_tasks,  \* state["completed_tasks"]
    active_pr,        \* state["active_pr"]: NoPR or the adopted pull request
    log,              \* state["log"]: the entries the driver appends
    commits,          \* number of calls of commit_and_push_bundle so far
    forge_comments,   \* the comments of the pull request, on the forge
    pr_state,         \* the state of the pull request, on the forge
    next_task,        \* the scheduler's last answer (NoTask stands for None)
    pc,               \* where the driver is: "idle" between two calls,
                      \* "executing" while the executor works on next_task
    user_request,     \* state["user_request"]
    plan_result,      \* the generator's answer to the planning prompt
    decomposition,    \* what TaskDecomposer.decompose returned
    git_ops,          \* the git commands the driver has run in the current
                      \* call to prepare a conflict resolution
    syntax_report,    \* per fenced block of the applier run under observation
                      \* (SpecApply): what the syntax and auto-fix loop did
    calls,            \* number of calls of run_iteration_cycle made so far,
                      \* for the session observed call by call (SpecCalls)
    branch_ops        \* the git branch commands of the applier run under
                      \* observation (SpecApply), in the order they were run

vars == <<tasks, iteration_count, should_continue, staged_files, completed_tasks,
          active_pr, log, commits, forge_comments, pr_state, next_task, pc,
          user_request, plan_result, decomposition, git_ops, syntax_report,
          calls, branch_ops>>

planvars == <<user_request, plan_result, decomposition>>

----------------------------------------------------------------------------
(* Bounds of the model *)

MaxSubtasks == 2      \* subtasks of a plan
MaxIterations == 2    \* config.task.max_iterations
MaxComments == 1      \* comments written on the pull request (acks not counted)
SchedLen == 2         \* length of the task lists given to the scheduler alone
MaxBlocks == 2        \* fenced blocks in one output of the generator

\* calls of a session that are followed: one more than the calls the budget
\* allows for (max_iterations that execute a task and one that ends)
MaxCalls == MaxIterations + 2

----------------------------------------------------------------------------
(* Data model *)

PENDING == "pending"
IN_PROGRESS == "in_progress"
COMPLETED == "completed"
FAILED == "failed"
BLOCKED == "blocked"

TaskStatus == {PENDING, IN_PROGRESS, COMPLETED, FAILED, BLOCKED}

CRITICAL == "critical"
HIGH == "high"
MEDIUM == "medium"
LOW == "low"

TaskPriority == {CRITICAL, HIGH, MEDIUM, LOW}

NoTask == 0
NoPR == [present |-> FALSE, head_ref |-> "", processed_comment_ids |-> <<>>]

NoMetadata ==
    [is_pr_feedback |-> FALSE, is_conflict_resolution |-> FALSE,
     skip_branch_creation |-> FALSE, pr_branch |-> ""]

\* Task(id=..., priority=..., status=..., parent_task_id=...): the other fields
\* take the defaults of the constructor.
Task(id, priority, status, parent) ==
    [id |-> id, priority |-> priority, status |-> status,
     parent_task_id |-> parent, description |-> "", dependencies |-> {},
     iteration |-> 0,
     result |-> "", error |-> "", originating_comment_id |-> 0,
     metadata |-> NoMetadata]

\* create_task_id(): a fresh identifier; the position the task will take.
create_task_id(ts) == Len(ts) + 1

Range(s) == {s[i] : i \in 1..Len(s)}

\* position of the task with the id in the list
PositionOf(ts, id) == CHOOSE i \in 1..Len(ts) : ts[i].id = id

----------------------------------------------------------------------------
(* Scheduler: TaskScheduler.get_next_task *)

\* priority_order, with the default 99 of priority_order.get(t.priority, 99)
PriorityOrder(p) ==
    CASE p = CRITICAL -> 0
      [] p = HIGH -> 1
      [] p = MEDIUM -> 2
      [] p = LOW -> 3
      [] OTHER -> 99

\* mutant: a dependency id that matches no task counts as met
DepsCompletedUnknownMet(task, ts) ==
    \A dep_id \in task.dependencies :
        \A i \in 1..Len(ts) : ts[i].id = dep_id => ts[i].status = COMPLETED

\* mutant: the dependencies are not looked at
DepsIgnored(task, ts) == TRUE

\* mutant: a dependency counts as met as soon as its task exists
DepsCompletedExists(task, ts) ==
    \A dep_id \in task.dependencies : \E i \in 1..Len(ts) : ts[i].id = dep_id

\* mutant: a dependency that has ended, COMPLETED or FAILED, counts as met
DepsEnded(task, ts) ==
    \A dep_id \in task.dependencies :
        \E i \in 1..Len(ts) : ts[i].id = dep_id /\ ts[i].status \in {COMPLETED, FAILED}

\* all(any(t.id == dep_id and t.status == COMPLETED for t in tasks)
\*     for dep_id in task.dependencies); an empty list skips the test.
DepsCompleted(task, ts) ==
    \A dep_id \in task.dependencies :
        \E i \in 1..Len(ts) : ts[i].id = dep_id /\ ts[i].status = COMPLETED

IsExecutable(task, ts) == task.status = PENDING /\ DepsCompleted(task, ts)

\* the loop that fills executable_tasks, in list order
ExecutableTasks(ts) == SelectSeq(ts, LAMBDA t : IsExecutable(t, ts))

\* mutant: a sort that is not stable, equal keys end in reverse order
RECURSIVE InsertByPriorityUnstable(_, _)
InsertByPriorityUnstable(t, sorted) ==
    IF sorted = <<>> THEN <<t>>
    ELSE IF PriorityOrder(Head(sorted).priority) < PriorityOrder(t.priority)
         THEN <<Head(sorted)>> \o InsertByPriorityUnstable(t, Tail(sorted))
         ELSE <<t>> \o sorted

\* list.sort(key=...) is stable: an element goes behind every element whose
\* key is not larger.
RECURSIVE InsertByPriority(_, _)
InsertByPriority(t, sorted) ==
    IF sorted = <<>> THEN <<t>>
    ELSE IF PriorityOrder(Head(sorted).priority) <= PriorityOrder(t.priority)
         THEN <<Head(sorted)>> \o InsertByPriority(t, Tail(sorted))
         ELSE <<t>> \o sorted

RECURSIVE SortByPriority(_)
SortByPriority(s) ==
    IF s = <<>> THEN <<>>
    ELSE InsertByPriority(s[Len(s)], SortByPriority(SubSeq(s, 1, Len(s) - 1)))

\* get_next_task returns the task object; the model returns its id, NoTask
\* for None.
get_next_task(ts) ==
    LET executable_tasks == ExecutableTasks(ts)
    IN  IF executable_tasks = <<>> THEN NoTask
        ELSE SortByPriority(executable_tasks)[1].id

----------------------------------------------------------------------------
(* Planner: TaskDecomposer.decompose and create_tasks_from_decomposition *)

\* The generator's answer to the planning prompt (result = chain.invoke(...)):
\*   kind       "raise": chain.invoke raises; "scalar": the parsed answer is
\*              neither a dict nor a list; "list": a list; "dict": a dict
\*   keys       the keys of the dict
\*   ill_typed  the keys whose value has not the type decompose tests for (a
\*              list for subtasks, a dict for priorities and dependencies) or
\*              TaskDecomposition accepts (a string for main_task)
\* and the values under main_task, subtasks (for a list: its items),
\* priorities and dependencies, the empty value where the key is absent.
\* Maps from descriptions are functions; a dependency list is a set.
DictKeys == {"main_task", "subtasks", "priorities", "dependencies",
             "tasks", "title", "description"}
TypedKeys == {"main_task", "subtasks", "priorities", "dependencies"}

EmptyMap == [x \in {} |-> ""]

\* the values under the keys tasks, title and description, when present
TasksTitles == <<"t1", "t2">>
TitleValue == "title"
DescriptionValue == "description"

DictAnswer(keys, ill_typed, v) ==
    [kind |-> "dict", keys |-> keys, ill_typed |-> ill_typed \cap keys,
     main_task |-> IF "main_task" \in keys THEN v.main_task ELSE "",
     subtasks |-> IF "subtasks" \in keys THEN v.subtasks ELSE <<>>,
     priorities |-> IF "priorities" \in keys THEN v.priorities ELSE EmptyMap,
     dependencies |-> IF "dependencies" \in keys THEN v.dependencies ELSE EmptyMap]

OtherAnswer(kind, items) ==
    [kind |-> kind, keys |-> {}, ill_typed |-> {}, main_task |-> "",
     subtasks |-> items, priorities |-> EmptyMap, dependencies |-> EmptyMap]

RaiseAnswer == OtherAnswer("raise", <<>>)
EmptyDict == DictAnswer({}, {}, [main_task |-> ""])

TaskDecomposition(main_task, subtasks, priorities, dependencies) ==
    [main_task |-> main_task, subtasks |-> subtasks, priorities |-> priorities,
     dependencies |-> dependencies]

\* mutant: the fallback plans nothing
FallbackNoSubtask(request) ==
    TaskDecomposition(request, <<>>, EmptyMap, EmptyMap)

\* the "except Exception" branch of decompose
Fallback(request) ==
    TaskDecomposition(request, <<request>>, [s \in {request} |-> "high"], EmptyMap)

\* mutant: an answer without subtasks is returned as it is
SalvageSubtasksKeepsEmpty(has_subtasks, subtasks, main_task, request) == subtasks

\* if "subtasks" not in result or not isinstance(result["subtasks"], list):
\*     result["subtasks"] = [result.get("main_task") or user_request]
SalvageSubtasks(has_subtasks, subtasks, main_task, request) ==
    IF has_subtasks THEN subtasks
    ELSE <<IF main_task # "" THEN main_task ELSE request>>

\* decompose: the try block salvages what the answer lacks, key by key; any
\* exception in it, the one of TaskDecomposition(**result) on an ill-typed
\* main_task included, ends in the fallback.
decompose(request, result) ==
    IF result.kind \in {"raise", "scalar"} THEN Fallback(request)
    ELSE
    LET is_list == result.kind = "list"
        keys0 == IF is_list THEN {"subtasks"} ELSE result.keys
        ill == IF is_list THEN {} ELSE result.ill_typed
        from_tasks == "tasks" \in keys0 /\ "subtasks" \notin keys0
        keys1 == IF from_tasks THEN keys0 \cup {"subtasks"} ELSE keys0
        from_title == "title" \in keys1 /\ "subtasks" \notin keys1
        from_description ==
            from_title /\ "description" \in keys1 /\ "main_task" \notin keys1
        keys2 == keys1 \cup (IF from_title THEN {"subtasks"} ELSE {})
                       \cup (IF from_description THEN {"main_task"} ELSE {})
        subtasks2 == IF from_tasks THEN TasksTitles
                     ELSE IF from_title THEN <<TitleValue>>
                     ELSE result.subtasks
        main_task == IF from_description THEN DescriptionValue
                     ELSE IF "main_task" \in keys2 THEN result.main_task
                     ELSE request
        subtasks == SalvageSubtasks(
                        "subtasks" \in keys2
                            /\ ("subtasks" \notin ill \/ from_tasks \/ from_title),
                        subtasks2, main_task, request)
        priorities == IF "priorities" \in keys2 \ ill THEN result.priorities
                      ELSE [s \in Range(subtasks) |-> "medium"]
        dependencies == IF "dependencies" \in keys2 \ ill THEN result.dependencies
                        ELSE EmptyMap
    IN  IF "main_task" \in ill /\ ~from_description THEN Fallback(request)
        ELSE TaskDecomposition(main_task, subtasks, priorities, dependencies)

\* TaskPriority(priority_str) if priority_str is one of the four names,
\* else MEDIUM
ToPriority(priority_str) ==
    IF priority_str \in {"critical", "high", "medium", "low"}
    THEN priority_str ELSE MEDIUM

\* mutant: the subtasks are created without parent_task_id
CreateTasksWithoutParent(d) ==
    <<[Task(1, HIGH, IN_PROGRESS, NoTask) EXCEPT !.description = d.main_task]>> \o
        [i \in 1..Len(d.subtasks) |->
            [Task(1 + i, MEDIUM, PENDING, NoTask) EXCEPT !.description = d.subtasks[i]]]

\* The root gets the first id, subtask i the next ones.  subtask_ids maps a
\* description to the id of the last subtask that has it; the dependencies
\* of a description go to that subtask, and a dependency name that is no
\* subtask is dropped.
create_tasks_from_decomposition(d) ==
    LET main_task_id == create_task_id(<<>>)
        main_task == [Task(main_task_id, HIGH, IN_PROGRESS, NoTask)
                        EXCEPT !.description = d.main_task]
        n == Len(d.subtasks)
        last(desc) == CHOOSE i \in 1..n :
                        d.subtasks[i] = desc /\ \A j \in (i + 1)..n : d.subtasks[j] # desc
        subtask_ids == [desc \in Range(d.subtasks) |-> main_task_id + last(desc)]
        priority_str(desc) == IF desc \in DOMAIN d.priorities
                              THEN d.priorities[desc] ELSE "medium"
        deps(i) ==
            IF d.subtasks[i] \in DOMAIN d.dependencies /\ last(d.subtasks[i]) = i
            THEN {subtask_ids[dep] :
                    dep \in d.dependencies[d.subtasks[i]] \cap DOMAIN subtask_ids}
            ELSE {}
        subtask(i) ==
            [Task(main_task_id + i, ToPriority(priority_str(d.subtasks[i])),
                  PENDING, main_task_id)
                EXCEPT !.description = d.subtasks[i], !.dependencies = deps(i)]
    IN  <<main_task>> \o [i \in 1..n |-> subtask(i)]

\* before planning: no answer and no decomposition yet
NoAnswer == OtherAnswer("none", <<>>)
NoDecomposition == TaskDecomposition("", <<>>, EmptyMap, EmptyMap)

\* the descriptions the generator gives to the subtasks of a plan
Descriptions == <<"a", "b", "c", "d">>

\* The answers that are complete dicts with n subtasks of distinct
\* descriptions: the generator chooses the priorities freely, and for each
\* subtask any set of other subtasks to depend on, or the subtask itself (a
\* subtask that depends on itself never runs, whatever else it depends on).
WellFormedAnswers(n) ==
    LET names == {Descriptions[i] : i \in 1..n}
        deps == {dep \in [names -> SUBSET names] :
                    \A s \in names : s \in dep[s] => dep[s] = {s}}
    IN  {DictAnswer(TypedKeys, {},
                    [main_task |-> "main", subtasks |-> SubSeq(Descriptions, 1, n),
                     priorities |-> p, dependencies |-> dep]) :
            p \in [names -> TaskPriority], dep \in deps}

\* the chain of n subtasks, each depending on the one before it
ChainAnswers(n) ==
    LET names == {Descriptions[i] : i \in 1..n}
    IN  {DictAnswer(TypedKeys, {},
                    [main_task |-> "main", subtasks |-> SubSeq(Descriptions, 1, n),
                     priorities |-> p,
                     dependencies |-> [s \in names |->
                        IF s = Descriptions[1] THEN {}
                        ELSE {Descriptions[i] : i \in {j \in 1..(n - 1) : Descriptions[j + 1] = s}}]]) :
            p \in [names -> TaskPriority]}

\* values for the keys of answers that decompose has to salvage: a priority
\* that is no priority and a dependency that is no subtask; a description
\* used twice, depending on itself, under an empty main_task; an empty list
\* of subtasks; two subtasks that depend on each other
AnswerValues ==
    {[main_task |-> "main", subtasks |-> <<"a", "b">>,
      priorities |-> [a |-> "high", b |-> "urgent"],
      dependencies |-> [b |-> {"a", "z"}]],
     [main_task |-> "", subtasks |-> <<"a", "a">>,
      priorities |-> [a |-> "low"], dependencies |-> [a |-> {"a"}]],
     [main_task |-> "main", subtasks |-> <<>>,
      priorities |-> EmptyMap, dependencies |-> EmptyMap],
     [main_task |-> "main", subtasks |-> <<"a", "b">>,
      priorities |-> [a |-> "critical", b |-> "low"],
      dependencies |-> [a |-> {"b"}, b |-> {"a"}]]}

\* every answer over these values: any set of keys, any of them ill-typed
GeneratorAnswers ==
    {RaiseAnswer, OtherAnswer("scalar", <<>>), OtherAnswer("list", <<>>),
     OtherAnswer("list", <<"a", "b">>)}
    \cup {DictAnswer(keys, ill_typed, v) :
            keys \in SUBSET DictKeys, ill_typed \in SUBSET TypedKeys,
            v \in AnswerValues}

\* the answers of this kind tried in a session
OddAnswers ==
    LET v == [main_task |-> "main", subtasks |-> <<"a", "b">>,
              priorities |-> [a |-> "high", b |-> "urgent"],
              dependencies |-> [b |-> {"a", "z"}]]
    IN  {RaiseAnswer, EmptyDict, OtherAnswer("scalar", <<>>),
         OtherAnswer("list", <<"a", "b">>),
         DictAnswer({"tasks"}, {}, v),
         DictAnswer({"title", "description"}, {}, v),
         DictAnswer(TypedKeys \ {"priorities"}, {}, v),
         DictAnswer(TypedKeys, {"subtasks"}, v),
         DictAnswer(TypedKeys, {"main_task"}, v)}

----------------------------------------------------------------------------
(* update_task_status: sets status, result and error of the task with the id *)

update_task_status(ts, task_id, status, result, error) ==
    [i \in 1..Len(ts) |->
        IF ts[i].id = task_id
        THEN [ts[i] EXCEPT !.status = status,
                           !.result = IF result # "" THEN result ELSE @,
                           !.error = IF error # "" THEN error ELSE @]
        ELSE ts[i]]

----------------------------------------------------------------------------
(* Reactive PR monitor: the first part of run_iteration_cycle *)

AgentLogin == "agent"
ReviewerLogin == "reviewer"
DefaultAgentUsername == "yaver"

\* comment bodies, as lower-case words
FixBody == <<"please", "fix", "typo">>
ConflictBody == <<"resolve", "merge", "conflict">>
AckBody == <<"seen", "your", "feedback">>
Bodies == {FixBody, ConflictBody}

\* the two Turkish keywords of the source are written in ASCII
ConflictKeywords == {"conflict", "merge", "cakisma", "kavga", "resolve"}

\* any(k in comment_body.lower() for k in [...]), on whole words
IsConflict(body) == \E w \in Range(body) : w \in ConflictKeywords

\* mutant: the feedback task does not carry the branch of the pull request
ReactiveTaskNoBranch(ts, pr, comment) ==
    [Task(create_task_id(ts), HIGH, PENDING, NoTask)
        EXCEPT !.description = "feedback",
               !.originating_comment_id = comment.id,
               !.metadata = [is_pr_feedback |-> TRUE,
                             is_conflict_resolution |-> IsConflict(comment.body),
                             skip_branch_creation |-> TRUE,
                             pr_branch |-> ""]]

\* mutant: the feedback task gets the default priority
ReactiveTaskMedium(ts, pr, comment) ==
    [Task(create_task_id(ts), MEDIUM, PENDING, NoTask)
        EXCEPT !.description = "feedback",
               !.originating_comment_id = comment.id,
               !.metadata = [is_pr_feedback |-> TRUE,
                             is_conflict_resolution |-> IsConflict(comment.body),
                             skip_branch_creation |-> TRUE,
                             pr_branch |-> pr.head_ref]]

\* Task(...) of the monitor for one comment
ReactiveTask(ts, pr, comment) ==
    [Task(create_task_id(ts), HIGH, PENDING, NoTask)
        EXCEPT !.description = "feedback",
               !.originating_comment_id = comment.id,
               !.metadata = [is_pr_feedback |-> TRUE,
                             is_conflict_resolution |-> IsConflict(comment.body),
                             skip_branch_creation |-> TRUE,
                             pr_branch |-> pr.head_ref]]

\* mutant: the test "comment_id in processed_comment_ids" is missing
ProcessCommentReprocesses(st, comment, agent_username, simulate_reviewer, ack_ok) ==
    LET is_own_comment == (comment.author = agent_username) /\ ~simulate_reviewer
        ack_id == Len(st.forge_comments) + 1
        processed == st.active_pr.processed_comment_ids
    IN  IF is_own_comment THEN st
        ELSE [tasks |-> Append(st.tasks, ReactiveTask(st.tasks, st.active_pr, comment)),
              active_pr |->
                  [st.active_pr EXCEPT !.processed_comment_ids =
                      (IF ack_ok THEN Append(processed, ack_id) ELSE processed)
                          \o <<comment.id>>],
              forge_comments |->
                  IF ack_ok
                  THEN Append(st.forge_comments,
                              [id |-> ack_id, author |-> AgentLogin, body |-> AckBody])
                  ELSE st.forge_comments]

\* One pass of "for comment in comments": st is the state the loop works on
\* (tasks, the active PR, the comments on the forge).
ProcessComment(st, comment, agent_username, simulate_reviewer, ack_ok) ==
    LET is_own_comment == (comment.author = agent_username) /\ ~simulate_reviewer
        ack_id == Len(st.forge_comments) + 1
        processed == st.active_pr.processed_comment_ids
    IN  IF comment.id \in Range(processed) THEN st
        ELSE IF is_own_comment THEN st
        ELSE [tasks |-> Append(st.tasks, ReactiveTask(st.tasks, st.active_pr, comment)),
              active_pr |->
                  [st.active_pr EXCEPT !.processed_comment_ids =
                      (IF ack_ok THEN Append(processed, ack_id) ELSE processed)
                          \o <<comment.id>>],
              forge_comments |->
                  IF ack_ok
                  THEN Append(st.forge_comments,
                              [id |-> ack_id, author |-> AgentLogin, body |-> AckBody])
                  ELSE st.forge_comments]

RECURSIVE ProcessComments(_, _, _, _, _)
ProcessComments(st, comments, agent_username, simulate_reviewer, ack_ok) ==
    IF comments = <<>> THEN st
    ELSE ProcessComments(
            ProcessComment(st, Head(comments), agent_username, simulate_reviewer, ack_ok),
            Tail(comments), agent_username, simulate_reviewer, ack_ok)

\* What the forge and the process environment answer during one call.
ForgeAnswers ==
    [forge_ok : BOOLEAN,           \* FALSE: the forge client raises
     user_ok : BOOLEAN,            \* get_user answers with the agent's login
     pr_ok : BOOLEAN,              \* get_pr answers with the PR (a dict)
     list_ok : BOOLEAN,            \* list_comments answers with a list
     ack_ok : BOOLEAN,             \* comment_issue answers with the new comment
     simulate_reviewer : BOOLEAN]  \* YAVER_SIMULATE_REVIEWER = "1"

DetectedPR == [present |-> TRUE, head_ref |-> "feature", processed_comment_ids |-> <<>>]

\* "Proactive PR Detection": with no active PR, find_pr_by_branch may find
\* the PR of the current branch, which is then adopted.
DetectPR(pr, detected) ==
    IF ~pr.present /\ detected /\ pr_state # "none" THEN DetectedPR ELSE pr

\* mutant: a forge client that raises ends the call
MonitorRaiseLeaves(pr, in) ==
    LET st == [tasks |-> tasks, active_pr |-> pr, forge_comments |-> forge_comments]
    IN  IF ~in.forge_ok \/ ~in.list_ok
        THEN [returned |-> TRUE, st |-> st]
        ELSE [returned |-> in.pr_ok /\ pr_state # "open", st |-> st]

\* The monitoring block on the active PR pr.  returned: the call ends at
\* "return state" because the PR is not open.
Monitor(pr, in) ==
    LET st == [tasks |-> tasks, active_pr |-> pr, forge_comments |-> forge_comments]
        agent_username == IF in.user_ok THEN AgentLogin ELSE DefaultAgentUsername
    IN  IF ~in.forge_ok
        THEN [returned |-> FALSE, st |-> st]
        ELSE IF in.pr_ok /\ pr_state # "open"
        THEN [returned |-> TRUE, st |-> st]
        ELSE IF ~in.list_ok
        THEN [returned |-> FALSE, st |-> st]
        ELSE [returned |-> FALSE,
              st |-> ProcessComments(st, forge_comments, agent_username,
                                     in.simulate_reviewer, in.ack_ok)]

\* The states the detection and the monitoring block can leave behind, over
\* all answers of the forge; without an active PR the block is skipped.
MonitorOutcomes ==
    UNION {IF pr.present
           THEN {Monitor(pr, in) : in \in ForgeAnswers}
           ELSE {[returned |-> FALSE,
                  st |-> [tasks |-> tasks, active_pr |-> pr,
                          forge_comments |-> forge_comments]]}
           : pr \in {DetectPR(active_pr, detected) : detected \in BOOLEAN}}

----------------------------------------------------------------------------
(* Executor and side-effect applier *)

\* A fenced block of the generator's output, with what the file system, the
\* syntax checker and the repair generator answer while it is applied:
\*   path         "none": the fence names no path; "bad": the path is
\*                refused (blank, "(", "=", ".", a trailing "/"); "dir": it
\*                is an existing directory; "ok"
\*   write_ok     makedirs, open and write succeed
\*   first_check  checker.check after the write: "valid", "invalid", or
\*                "raises"
\*   fix          CoderAgent().fix_code: "no_coder" (the constructor raises),
\*                "raises", "no_code" (no fenced code in the answer), "code"
\*   rewrite_ok   writing the repaired code succeeds
\*   recheck      checker.check after the repair
\* Answers that are never asked for have the first value of their set.
Block(path, write_ok, first_check, fix, rewrite_ok, recheck) ==
    [path |-> path, write_ok |-> write_ok, first_check |-> first_check,
     fix |-> fix, rewrite_ok |-> rewrite_ok, recheck |-> recheck]

ValidBlock == Block("ok", TRUE, "valid", "no_coder", TRUE, "valid")

Blocks ==
    {Block(path, TRUE, "valid", "no_coder", TRUE, "valid") :
        path \in {"none", "bad", "dir"}}
    \cup {Block("ok", FALSE, "valid", "no_coder", TRUE, "valid")}
    \cup {Block("ok", TRUE, first_check, "no_coder", TRUE, "valid") :
            first_check \in {"valid", "invalid", "raises"}}
    \cup {Block("ok", TRUE, "invalid", fix, TRUE, "valid") :
            fix \in {"raises", "no_code"}}
    \cup {Block("ok", TRUE, "invalid", "code", FALSE, "valid")}
    \cup {Block("ok", TRUE, "invalid", "code", TRUE, recheck) :
            recheck \in {"valid", "invalid", "raises"}}

\* mutant: a file that is still invalid after the repair is not applied
ApplyBlockDropsUnrepaired(b) ==
    LET written == b.path = "ok" /\ b.write_ok
        invalid == written /\ b.first_check = "invalid"
        repaired == invalid /\ b.fix = "code" /\ b.rewrite_ok
    IN  [block |-> b, written |-> written,
         first_check |-> IF written THEN b.first_check ELSE "none",
         fix_code_calls |-> IF invalid /\ b.fix # "no_coder" THEN 1 ELSE 0,
         recheck |-> IF repaired THEN b.recheck ELSE "none",
         applied |-> written /\ ~(repaired /\ b.recheck = "invalid")]

\* One pass of "for match in matches": what is done for the block (kept in
\* the report with it).  The syntax and auto-fix part sits in a try of its
\* own: whatever happens in it, the file goes to applied_files once it was
\* written.
ApplyBlock(b) ==
    LET written == b.path = "ok" /\ b.write_ok
        invalid == written /\ b.first_check = "invalid"
        repaired == invalid /\ b.fix = "code" /\ b.rewrite_ok
    IN  [block |-> b, written |-> written,
         first_check |-> IF written THEN b.first_check ELSE "none",
         fix_code_calls |-> IF invalid /\ b.fix # "no_coder" THEN 1 ELSE 0,
         recheck |-> IF repaired THEN b.recheck ELSE "none",
         applied |-> written]

\* the write of the block's file fails ("except Exception as e" of the pass)
WriteFails(b) == b.path = "ok" /\ ~b.write_ok

\* mutant: the first file that cannot be written ends the loop
ApplyBlocksStopAtFailure(blocks) ==
    [k \in 1..Len(blocks) |->
        IF \E j \in 1..(k - 1) : WriteFails(blocks[j])
        THEN [block |-> blocks[k], written |-> FALSE, first_check |-> "none",
              fix_code_calls |-> 0, recheck |-> "none", applied |-> FALSE]
        ELSE ApplyBlock(blocks[k])]

\* "for match in matches": each pass has its own try, a write that fails is
\* commented on the task and the loop goes on with the next block
ApplyBlocks(blocks) == [k \in 1..Len(blocks) |-> ApplyBlock(blocks[k])]

\* applied_files: the path of block k of the task's output is <<task_id, k>>
RECURSIVE AppliedFiles(_, _, _)
AppliedFiles(task_id, blocks, k) ==
    IF k = 0 THEN <<>>
    ELSE AppliedFiles(task_id, blocks, k - 1)
            \o (IF ApplyBlocks(blocks)[k].applied THEN <<<<task_id, k>>>> ELSE <<>>)

\* execute_task: the generator answers, with any fenced blocks, or raises
ExecutionResult(success, blocks) ==
    [success |-> success, output |-> IF success THEN "output" ELSE "",
     error |-> IF success THEN "" ELSE "error", blocks |-> blocks]

\* The results tried in a session: for the session it only matters whether a
\* block ends in applied_files, so one block that does stands for all.
ExecutionResults ==
    {ExecutionResult(TRUE, <<>>), ExecutionResult(TRUE, <<ValidBlock>>),
     ExecutionResult(FALSE, <<>>)}

\* mutant: the applier does not look at result["success"]
ApplyIgnoresFailure(task_id, result, staged) ==
    staged \o <<<<task_id, 0>>>>

\* apply_execution_side_effects: returns at once on a failed result, else
\* extends staged_files by applied_files; it never commits.
apply_execution_side_effects(task_id, result, staged) ==
    IF ~result.success THEN staged
    ELSE staged \o AppliedFiles(task_id, result.blocks, Len(result.blocks))

\* a git command that was run: the command, its argument, whether it worked
GitOp(op, arg, ok) == [op |-> op, arg |-> arg, ok |-> ok]

\* Step 1 of the applier, "Detect Intent and Manage Branches".  The texts of
\* the model are single words or the phrase itself:
\* "pull request" in text.lower() and "pr" in text.lower().split()
MentionsPullRequest(text) == text = "pull request"
HasWordPr(text) == text = "pr"

\* The title of a task: "Subtask i: " and the description for a subtask of
\* the plan, "Fix PR Feedback: " or "Resolve Conflict: " and the comment for
\* a feedback task (no comment body of the model has the word "pr").
TitleHasWordPr(task) ==
    IF task.metadata.is_pr_feedback
    THEN ~task.metadata.is_conflict_resolution
    ELSE HasWordPr(task.description)

\* is_pr_requested
PrIntent(task, request) ==
    \/ MentionsPullRequest(task.description)
    \/ MentionsPullRequest(request)
    \/ TitleHasWordPr(task)
    \/ HasWordPr(request)

\* new_branch_name = f"yaver-task-{task.id[:8]}"
FeatureBranch == "yaver-task"

\* What git answers to the applier.  repo_ok: git.Repo(repo_path) answers;
\* active_branch: the branch of the working copy, "detached" when
\* repo.active_branch raises; exists: new_branch_name in repo.heads.
BranchAnswers ==
    [repo_ok : BOOLEAN, active_branch : {"main", "feature", "detached"},
     exists : BOOLEAN, checkout_ok : BOOLEAN, pull_ok : BOOLEAN,
     force_ok : BOOLEAN, create_ok : BOOLEAN]

\* mutant: skip_branch_creation is not looked at
ManageBranchesIgnoresSkip(task, request, git) ==
    IF ~git.repo_ok \/ ~PrIntent(task, request) THEN <<>>
    ELSE <<GitOp("create_head", FeatureBranch, git.create_ok)>>

\* The git commands of the step, in the order they are run; every failure
\* is caught and logged.
ManageBranches(task, request, git) ==
    IF ~git.repo_ok THEN <<>>
    ELSE IF task.metadata.skip_branch_creation
    THEN IF task.metadata.pr_branch = "" THEN <<>>
         ELSE IF git.active_branch = "detached"
         THEN <<GitOp("active_branch", "", FALSE)>>
         ELSE <<GitOp("active_branch", git.active_branch, TRUE)>>
                \o (IF git.active_branch # task.metadata.pr_branch
                    THEN <<GitOp("checkout", task.metadata.pr_branch,
                                 git.checkout_ok)>>
                    ELSE <<>>)
    ELSE IF ~PrIntent(task, request) THEN <<>>
    ELSE IF git.exists
    THEN IF git.checkout_ok
         THEN <<GitOp("checkout", FeatureBranch, TRUE),
                GitOp("pull", "origin main", git.pull_ok)>>
         ELSE <<GitOp("checkout", FeatureBranch, FALSE),
                GitOp("checkout -f", FeatureBranch, git.force_ok)>>
    ELSE <<GitOp("create_head", FeatureBranch, git.create_ok)>>
            \o (IF git.create_ok
                THEN <<GitOp("checkout", FeatureBranch, git.checkout_ok)>>
                ELSE <<>>)

\* the ways the step can go for the task; the applier returns before it on a
\* failed result
Branchings(task, request, result) ==
    IF ~result.success THEN {<<>>}
    ELSE {ManageBranches(task, request, git) : git \in BranchAnswers}

\* commit_and_push_bundle: one commit of the staged bundle
commit_and_push_bundle(n) == n + 1

----------------------------------------------------------------------------
(* Pre-execution setup for conflict resolution, in run_iteration_cycle *)

\* What git answers during the setup.  repo_ok: git.Repo(repo_path) and
\* repo.active_branch answer; on_pr_branch: the working copy is on pr_branch.
GitAnswers ==
    [repo_ok : BOOLEAN, on_pr_branch : BOOLEAN, checkout_ok : BOOLEAN,
     fetch_ok : BOOLEAN, merge_ok : BOOLEAN]

\* mutant: a git command that fails ends the call
ConflictSetupUncaught(task, git) ==
    IF ~task.metadata.is_conflict_resolution THEN [ops |-> <<>>, raised |-> FALSE]
    ELSE IF ~git.repo_ok THEN [ops |-> <<>>, raised |-> TRUE]
    ELSE [ops |-> <<GitOp("fetch", "origin", git.fetch_ok)>>,
          raised |-> ~git.fetch_ok]

\* The git commands of the setup, in the order they are run.  A checkout
\* that fails leaves the block by the outer "except Exception"; a fetch that
\* fails skips the merge; nothing leaves the block as an exception.
ConflictSetup(task, git) ==
    IF ~task.metadata.is_conflict_resolution \/ ~git.repo_ok
    THEN [ops |-> <<>>, raised |-> FALSE]
    ELSE
    LET pr_branch == task.metadata.pr_branch
        checkout == IF pr_branch # "" /\ ~git.on_pr_branch
                    THEN <<GitOp("checkout", pr_branch, git.checkout_ok)>>
                    ELSE <<>>
        fetch == <<GitOp("fetch", "origin", git.fetch_ok)>>
        merge == IF git.fetch_ok
                 THEN <<GitOp("merge", "origin/base", git.merge_ok)>> ELSE <<>>
    IN  [ops |-> IF checkout # <<>> /\ ~git.checkout_ok THEN checkout
                 ELSE checkout \o fetch \o merge,
         raised |-> FALSE]

\* the ways the setup can go for the task
Preparations(task) == {ConflictSetup(task, git) : git \in GitAnswers}

----------------------------------------------------------------------------
(* The session *)

Init ==
    /\ tasks = <<>>
    /\ iteration_count = 0
    /\ should_continue = TRUE
    /\ staged_files = <<>>
    /\ completed_tasks = <<>>
    /\ pr_state \in {"none", "open"}
    /\ active_pr \in {NoPR} \cup (IF pr_state = "open" THEN {DetectedPR} ELSE {})
    /\ log = <<>>
    /\ commits = 0
    /\ forge_comments = <<>>
    /\ next_task = NoTask
    /\ pc = "idle"
    /\ user_request = "noop"
    /\ plan_result = NoAnswer
    /\ decomposition = NoDecomposition
    /\ git_ops = <<>>
    /\ syntax_report = <<>>
    /\ calls = 0
    /\ branch_ops = <<>>

\* The answers of the generator explored in a session: for a repository
\* without pull request every complete dict up to MaxSubtasks subtasks, the
\* chains of one subtask more, and the answers decompose has to salvage; for
\* one with a pull request, where the monitor adds tasks, the complete dicts
\* of one subtask.
PlanInputs ==
    IF pr_state = "none"
    THEN UNION {WellFormedAnswers(n) : n \in 1..MaxSubtasks}
            \cup ChainAnswers(MaxSubtasks + 1) \cup OddAnswers
    ELSE WellFormedAnswers(1)

\* task_manager_node when there are no tasks yet: decompose the request and
\* materialise the tasks
PlanWith(result) ==
    /\ tasks = <<>>
    /\ plan_result' = result
    /\ decomposition' = decompose(user_request, result)
    /\ tasks' = create_tasks_from_decomposition(decomposition')
    /\ iteration_count' = 0
    /\ completed_tasks' = <<>>
    /\ log' = Append(log, [kind |-> "created"])
    /\ UNCHANGED <<should_continue, staged_files, active_pr, commits,
                   forge_comments, pr_state, next_task, pc, user_request,
                   git_ops, syntax_report, calls,
                   branch_ops>>

Plan ==
    /\ tasks = <<>>
    /\ \E result \in PlanInputs : PlanWith(result)

\* the caller's loop: run_iteration_cycle is called while should_continue
Callable == tasks # <<>> /\ should_continue /\ pc = "idle"

\* mutant: the budget test is off by one
BudgetExhaustedOffByOne(count) == count > MaxIterations

\* iteration_count >= config.task.max_iterations
BudgetExhausted(count) == count >= MaxIterations

\* run_iteration_cycle, entered with the budget used up
BudgetCall ==
    /\ Callable
    /\ BudgetExhausted(iteration_count)
    /\ should_continue' = FALSE
    /\ log' = Append(log, [kind |-> "max_iterations"])
    /\ UNCHANGED <<tasks, iteration_count, staged_files, completed_tasks,
                   active_pr, commits, forge_comments, pr_state, next_task, pc,
                   git_ops, syntax_report, branch_ops>>
    /\ UNCHANGED planvars

CycleBudget == BudgetCall /\ UNCHANGED calls

\* run_iteration_cycle, leaving at "return state": the PR is not open
PrNotOpenCall ==
    /\ Callable
    /\ ~BudgetExhausted(iteration_count)
    /\ \E m \in MonitorOutcomes :
            /\ m.returned
            /\ active_pr' = m.st.active_pr
    /\ UNCHANGED <<tasks, iteration_count, should_continue, staged_files,
                   completed_tasks, log, commits, forge_comments, pr_state,
                   next_task, pc, git_ops, syntax_report, branch_ops>>
    /\ UNCHANGED planvars

CyclePrNotOpen == PrNotOpenCall /\ UNCHANGED calls

\* mutant: the scheduler is given the list as it was before the monitor ran
ScheduledTasksBeforeMonitor(before, after) == before

\* scheduler.get_next_task(tasks): tasks is the list object of the state, the
\* one the monitor has appended to (before: the list at the entry of the call)
ScheduledTasks(before, after) == after

\* run_iteration_cycle when the scheduler has no task
IdleCall ==
    /\ Callable
    /\ ~BudgetExhausted(iteration_count)
    /\ \E m \in MonitorOutcomes :
            /\ ~m.returned
            /\ get_next_task(ScheduledTasks(tasks, m.st.tasks)) = NoTask
            /\ tasks' = m.st.tasks
            /\ active_pr' = m.st.active_pr
            /\ forge_comments' = m.st.forge_comments
    /\ next_task' = NoTask
    /\ commits' = IF staged_files # <<>> THEN commit_and_push_bundle(commits)
                  ELSE commits
    /\ should_continue' = FALSE
    /\ log' = Append(log, [kind |-> "no_more_tasks"])
    /\ UNCHANGED <<iteration_count, staged_files, completed_tasks, pr_state, pc,
                   git_ops, syntax_report, branch_ops>>
    /\ UNCHANGED planvars

CycleIdle == IdleCall /\ UNCHANGED calls

\* mutant: the selected task is not marked IN_PROGRESS
StartTaskKeepsPending(ts, task_id, iteration) ==
    [i \in 1..Len(ts) |->
        IF ts[i].id = task_id THEN [ts[i] EXCEPT !.iteration = iteration] ELSE ts[i]]

\* mutant: the selected task is marked IN_PROGRESS but keeps its iteration
StartTaskNoIteration(ts, task_id, iteration) ==
    [i \in 1..Len(ts) |->
        IF ts[i].id = task_id THEN [ts[i] EXCEPT !.status = IN_PROGRESS] ELSE ts[i]]

\* next_task.status = IN_PROGRESS; next_task.iteration = iteration_count + 1
StartTask(ts, task_id, iteration) ==
    [i \in 1..Len(ts) |->
        IF ts[i].id = task_id
        THEN [ts[i] EXCEPT !.status = IN_PROGRESS, !.iteration = iteration]
        ELSE ts[i]]

\* run_iteration_cycle when the scheduler returns a task, up to the call of
\* the executor: monitor, schedule, mark the task IN_PROGRESS
StartCall ==
    /\ Callable
    /\ ~BudgetExhausted(iteration_count)
    /\ \E m \in MonitorOutcomes :
            /\ ~m.returned
            /\ next_task' = get_next_task(ScheduledTasks(tasks, m.st.tasks))
            /\ next_task' # NoTask
            /\ tasks' = StartTask(m.st.tasks, next_task', iteration_count + 1)
            /\ active_pr' = m.st.active_pr
            /\ forge_comments' = m.st.forge_comments
    /\ \E prep \in Preparations(tasks'[PositionOf(tasks', next_task')]) :
            /\ git_ops' = prep.ops
            /\ pc' = IF prep.raised THEN "idle" ELSE "executing"
    /\ UNCHANGED <<iteration_count, should_continue, staged_files,
                   completed_tasks, log, commits, pr_state, syntax_report,
                   branch_ops>>
    /\ UNCHANGED planvars

CycleStart == StartCall /\ UNCHANGED calls

\* mutant: a failed execution is not written back
FinishTaskOnlySuccess(ts, task_id, execution_result) ==
    IF execution_result.success
    THEN update_task_status(ts, task_id, COMPLETED, execution_result.output, "")
    ELSE ts

\* the result of the executed task, written back by update_task_status
FinishTask(ts, task_id, execution_result) ==
    IF execution_result.success
    THEN update_task_status(ts, task_id, COMPLETED, execution_result.output, "")
    ELSE update_task_status(ts, task_id, FAILED, "", execution_result.error)

\* mutant: only the pending tasks keep the session going
TasksRemainPendingOnly(ts) == \E i \in 1..Len(ts) : ts[i].status = PENDING

\* len(pending_tasks) > 0 or len(in_progress_tasks) > 0
TasksRemain(ts) ==
    \/ \E i \in 1..Len(ts) : ts[i].status = PENDING
    \/ \E i \in 1..Len(ts) : ts[i].status = IN_PROGRESS

\* mutant: the id is recorded whatever the result
CompletedAfterAnyResult(completed, task_id, execution_result) ==
    Append(completed, task_id)

\* state.get("completed_tasks", []) + ([next_task.id] if success else [])
CompletedAfter(completed, task_id, execution_result) ==
    completed \o (IF execution_result.success THEN <<task_id>> ELSE <<>>)

\* the rest of the same call with the executor's answer: the applier writes
\* and stages, the task and the counters are updated, the call returns
FinishWith(execution_result) ==
    /\ tasks' = FinishTask(tasks, next_task, execution_result)
    /\ staged_files' = apply_execution_side_effects(next_task, execution_result,
                                                    staged_files)
    /\ completed_tasks' = CompletedAfter(completed_tasks, next_task,
                                         execution_result)
    /\ log' = Append(log, [kind |-> "executed", task |-> next_task,
                           iteration |-> iteration_count + 1,
                           success |-> execution_result.success])
    /\ iteration_count' = iteration_count + 1
    /\ should_continue' = TasksRemain(tasks')
    /\ commits' = IF ~should_continue' /\ staged_files' # <<>>
                  THEN commit_and_push_bundle(commits) ELSE commits
    /\ pc' = "idle"
    /\ git_ops' = <<>>
    /\ UNCHANGED <<active_pr, forge_comments, pr_state, next_task, calls>>
    /\ UNCHANGED planvars

CycleFinish ==
    /\ pc = "executing"
    /\ \E execution_result \in ExecutionResults : FinishWith(execution_result)
    /\ UNCHANGED <<syntax_report, branch_ops>>

\* A reviewer, or the agent's own account, comments on the pull request.
PostComment ==
    /\ pr_state = "open" /\ should_continue /\ tasks # <<>>
    /\ Cardinality({i \in 1..Len(forge_comments) :
                        forge_comments[i].body # AckBody}) < MaxComments
    /\ \E author \in {AgentLogin, ReviewerLogin}, body \in Bodies :
        forge_comments' = Append(forge_comments,
            [id |-> Len(forge_comments) + 1, author |-> author, body |-> body])
    /\ UNCHANGED <<tasks, iteration_count, should_continue, staged_files,
                   completed_tasks, active_pr, log, commits, pr_state, next_task, pc,
                   git_ops, syntax_report, calls,
                   branch_ops>>
    /\ UNCHANGED planvars

\* The pull request is merged or closed on the forge.
ClosePR ==
    /\ pr_state = "open" /\ should_continue /\ tasks # <<>>
    /\ pr_state' = "closed"
    /\ UNCHANGED <<tasks, iteration_count, should_continue, staged_files,
                   completed_tasks, active_pr, log, commits, forge_comments,
                   next_task, pc, git_ops, syntax_report, calls,
                   branch_ops>>
    /\ UNCHANGED planvars

Next == Plan \/ CycleBudget \/ CyclePrNotOpen \/ CycleIdle \/ CycleStart
        \/ CycleFinish \/ PostComment \/ ClosePR

Spec == Init /\ [][Next]_vars

----------------------------------------------------------------------------
(* The session observed call by call: the caller's loop of
   "result = run_iteration_cycle(state)", each call counted *)

CountedBudget == BudgetCall /\ calls' = calls + 1

\* calls that change nothing are followed up to MaxCalls calls
CountedPrNotOpen == calls < MaxCalls /\ PrNotOpenCall /\ calls' = calls + 1

CountedIdle == IdleCall /\ calls' = calls + 1

CountedStart == StartCall /\ calls' = calls + 1

NextCounted == Plan \/ CountedBudget \/ CountedPrNotOpen \/ CountedIdle
               \/ CountedStart \/ CycleFinish \/ PostComment \/ ClosePR

SpecCalls == Init /\ [][NextCounted]_vars

----------------------------------------------------------------------------
(* The scheduler alone, on arbitrary task lists *)

\* The dependencies tried for the task at position i of a list of n tasks:
\* its left neighbour and an id that no task has, alone or together, or
\* both neighbours (positions wrap around; ids are positions).
DepChoices(i, n) ==
    LET left == IF i = 1 THEN n ELSE i - 1
        right == IF i = n THEN 1 ELSE i + 1
    IN  [none |-> {}, left |-> {left}, unknown |-> {n + 1},
         left_unknown |-> {left, n + 1}, both |-> {left, right}]

SchedInit ==
    /\ \E n \in 1..SchedLen :
        \E f \in [1..n -> [priority : TaskPriority, status : TaskStatus,
                            deps : {"none", "left", "unknown", "left_unknown", "both"}]] :
            tasks = [i \in 1..n |->
                        [Task(i, f[i].priority, f[i].status, NoTask)
                            EXCEPT !.dependencies = DepChoices(i, n)[f[i].deps]]]
    /\ iteration_count = 0
    /\ should_continue = TRUE
    /\ staged_files = <<>>
    /\ completed_tasks = <<>>
    /\ pr_state = "none"
    /\ active_pr = NoPR
    /\ log = <<>>
    /\ commits = 0
    /\ forge_comments = <<>>
    /\ next_task = NoTask
    /\ pc = "idle"
    /\ user_request = "noop"
    /\ plan_result = NoAnswer
    /\ decomposition = NoDecomposition
    /\ git_ops = <<>>
    /\ syntax_report = <<>>
    /\ calls = 0
    /\ branch_ops = <<>>

\* next_task = scheduler.get_next_task(tasks)
Schedule ==
    /\ pc = "idle"
    /\ next_task' = get_next_task(tasks)
    /\ pc' = "scheduled"
    /\ UNCHANGED <<tasks, iteration_count, should_continue, staged_files,
                   completed_tasks, active_pr, log, commits, forge_comments,
                   pr_state, git_ops, syntax_report, calls,
                   branch_ops>>
    /\ UNCHANGED planvars

SpecSched == SchedInit /\ [][Schedule]_vars

----------------------------------------------------------------------------
(* One run of the executor and the applier, on any output *)

\* the executor's results with up to MaxBlocks fenced blocks
RECURSIVE BlockSeqs(_)
BlockSeqs(n) ==
    IF n = 0 THEN {<<>>}
    ELSE BlockSeqs(n - 1)
            \cup {Append(bs, b) : bs \in {x \in BlockSeqs(n - 1) : Len(x) = n - 1},
                                  b \in Blocks}

AllExecutionResults ==
    {ExecutionResult(TRUE, bs) : bs \in BlockSeqs(MaxBlocks)}
        \cup {ExecutionResult(FALSE, <<>>)}

\* the plans of the applier runs: one or two subtasks
ApplyPlan(n, priority) ==
    create_tasks_from_decomposition(
        TaskDecomposition("main", SubSeq(Descriptions, 1, n),
            [s \in {Descriptions[1]} |-> priority], EmptyMap))

\* a comment of the reviewer on the pull request
ReviewComment(body) == [id |-> 1, author |-> ReviewerLogin, body |-> body]

\* The state in which the applier runs: a task of the plan was selected and
\* started, or the monitor has first turned a comment on the pull request
\* into a feedback task, which the scheduler then selected.
ApplyInit ==
    /\ user_request \in {"noop", "pr"}
    /\ \/ /\ \E n \in 1..2, priority \in {HIGH, LOW} :
                tasks = StartTask(ApplyPlan(n, priority), 2, 1)
          /\ next_task = 2
          /\ pr_state = "none"
          /\ active_pr = NoPR
          /\ forge_comments = <<>>
       \/ /\ pr_state = "open"
          /\ \E head_ref \in {"feature", ""}, body \in Bodies, ack_ok \in BOOLEAN :
                LET comments == <<ReviewComment(body)>>
                    st == ProcessComments(
                            [tasks |-> ApplyPlan(1, LOW),
                             active_pr |-> [DetectedPR EXCEPT !.head_ref = head_ref],
                             forge_comments |-> comments],
                            comments, AgentLogin, FALSE, ack_ok)
                IN  /\ next_task = get_next_task(st.tasks)
                    /\ tasks = StartTask(st.tasks, next_task, 1)
                    /\ active_pr = st.active_pr
                    /\ forge_comments = st.forge_comments
    /\ iteration_count = 0
    /\ should_continue = TRUE
    /\ staged_files = <<>>
    /\ completed_tasks = <<>>
    /\ log = <<>>
    /\ commits = 0
    /\ pc = "executing"
    /\ plan_result = NoAnswer
    /\ decomposition = NoDecomposition
    /\ git_ops = <<>>
    /\ syntax_report = <<>>
    /\ calls = 0
    /\ branch_ops = <<>>

\* the rest of the call as in CycleFinish, keeping what the applier did for
\* each block
ApplierRun ==
    /\ pc = "executing"
    /\ \E execution_result \in AllExecutionResults :
        /\ FinishWith(execution_result)
        /\ syntax_report' = ApplyBlocks(execution_result.blocks)
        /\ \E ops \in Branchings(tasks[PositionOf(tasks, next_task)], user_request,
                                  execution_result) :
                branch_ops' = ops

SpecApply == ApplyInit /\ [][ApplierRun]_vars

----------------------------------------------------------------------------
(* Planning alone, on any answer of the generator *)

PlanInit ==
    /\ tasks = <<>>
    /\ iteration_count = 0
    /\ should_continue = TRUE
    /\ staged_files = <<>>
    /\ completed_tasks = <<>>
    /\ pr_state = "none"
    /\ active_pr = NoPR
    /\ log = <<>>
    /\ commits = 0
    /\ forge_comments = <<>>
    /\ next_task = NoTask
    /\ pc = "idle"
    /\ user_request \in {"noop", "fix"}
    /\ plan_result = NoAnswer
    /\ decomposition = NoDecomposition
    /\ git_ops = <<>>
    /\ syntax_report = <<>>
    /\ calls = 0
    /\ branch_ops = <<>>

\* task_manager_node, planning
PlanAny ==
    /\ tasks = <<>>
    /\ \E result \in GeneratorAnswers : PlanWith(result)

SpecPlan == PlanInit /\ [][PlanAny]_vars

----------------------------------------------------------------------------
(* Properties *)

\* a task that may run: PENDING, and each of its dependency ids is the id of
\* a COMPLETED task of the list
Runnable(ts, i) ==
    /\ ts[i].status = PENDING
    /\ \A d \in ts[i].dependencies :
        \E j \in 1..Len(ts) : ts[j].id = d /\ ts[j].status = COMPLETED

RunnableSet(ts) == {i \in 1..Len(ts) : Runnable(ts, i)}

\* CRITICAL before HIGH before MEDIUM before LOW
PriorityRanking == <<CRITICAL, HIGH, MEDIUM, LOW>>
Rank(p) == CHOOSE k \in DOMAIN PriorityRanking : PriorityRanking[k] = p

Executed == SelectSeq(log, LAMBDA e : e.kind = "executed")

Terminal == {COMPLETED, FAILED}

\* C1: the task get_next_task returns is PENDING and every dependency id of
\* it is the id of a COMPLETED task of the list; an id of no task is unmet.
C1_ReturnsOnlyRunnable ==
    (pc = "scheduled" /\ next_task # NoTask) =>
        /\ \E i \in 1..Len(tasks) : tasks[i].id = next_task
        /\ Runnable(tasks, PositionOf(tasks, next_task))

\* C1 witness: a PENDING task of the highest priority is passed over because
\* of a dependency id that no task has, and a later task is returned.
C1_Witness ==
    /\ pc = "scheduled" /\ Len(tasks) = 2
    /\ tasks[1].status = PENDING /\ tasks[1].priority = CRITICAL
    /\ tasks[1].dependencies = {3}
    /\ tasks[2].priority = LOW
    /\ next_task = 2

\* C2: get_next_task returns None exactly when no task is runnable; else it
\* returns a runnable task such that no runnable task has a higher priority
\* and no runnable task of the same priority stands earlier in the list.
C2_HighestPriorityEarliest ==
    pc = "scheduled" =>
        /\ (next_task = NoTask) <=> (RunnableSet(tasks) = {})
        /\ next_task # NoTask =>
            \E i \in RunnableSet(tasks) :
                /\ tasks[i].id = next_task
                /\ \A j \in RunnableSet(tasks) :
                    \/ Rank(tasks[i].priority) < Rank(tasks[j].priority)
                    \/ /\ Rank(tasks[i].priority) = Rank(tasks[j].priority)
                       /\ i <= j

\* C2 witness: two runnable tasks of the same priority; the earlier one wins.
C2_Witness ==
    /\ pc = "scheduled" /\ Len(tasks) = 2
    /\ RunnableSet(tasks) = {1, 2}
    /\ tasks[1].priority = MEDIUM /\ tasks[2].priority = MEDIUM
    /\ next_task = 1

\* a plan of at least two subtasks, each depending on the one before it, and
\* no task besides the root and its subtasks
IsChain(ts) ==
    /\ Len(ts) >= 3
    /\ \A i \in 2..Len(ts) : ts[i].parent_task_id = ts[1].id
    /\ ts[2].dependencies = {}
    /\ \A i \in 3..Len(ts) : ts[i].dependencies = {ts[i - 1].id}

\* C3: for a chain plan whose executions so far all succeeded, the k-th
\* executed task is the k-th subtask, one per iteration, whatever the
\* priorities; the task in execution is the next subtask of the chain.
C3_ChainOrder ==
    (IsChain(tasks) /\ \A k \in 1..Len(Executed) : Executed[k].success) =>
        /\ Len(Executed) = iteration_count
        /\ \A k \in 1..Len(Executed) :
            Executed[k].task = tasks[k + 1].id /\ Executed[k].iteration = k
        /\ pc = "executing" => next_task = tasks[iteration_count + 2].id

\* C3 witness: a chain whose second subtask has the higher priority, both
\* executed with success.
C3_Witness ==
    /\ IsChain(tasks)
    /\ tasks[2].priority = LOW /\ tasks[3].priority = CRITICAL
    /\ Len(Executed) = 2
    /\ Executed[1].success /\ Executed[2].success

\* C4: every dependency id of a COMPLETED task is the id of a COMPLETED task.
C4_CompletedDepsCompleted ==
    \A i \in 1..Len(tasks) :
        tasks[i].status = COMPLETED =>
            \A d \in tasks[i].dependencies :
                \E j \in 1..Len(tasks) : tasks[j].id = d /\ tasks[j].status = COMPLETED

\* C4 witness: a COMPLETED task that has a dependency, while the task it
\* depends on had the lower priority.
C4_Witness ==
    \E i \in 1..Len(tasks) :
        /\ tasks[i].status = COMPLETED
        /\ tasks[i].priority = CRITICAL
        /\ \E j \in 1..Len(tasks) :
            tasks[i].dependencies = {tasks[j].id} /\ tasks[j].priority = LOW

InProgress(ts) == {i \in 1..Len(ts) : ts[i].status = IN_PROGRESS}

\* C5: between two calls of run_iteration_cycle at most one task of the
\* session is IN_PROGRESS, the root counted.
C5_OneInProgressBetweenIterations ==
    pc = "idle" => Cardinality(InProgress(tasks)) <= 1

\* C5 witness: a call has ended with a FAILED task; only the root is
\* IN_PROGRESS.
C5_Witness ==
    /\ pc = "idle" /\ iteration_count >= 1
    /\ InProgress(tasks) = {1}
    /\ \E i \in 1..Len(tasks) : tasks[i].status = FAILED

\* C6: in every step a task keeps its status, or moves from PENDING to
\* IN_PROGRESS, or from IN_PROGRESS to COMPLETED or FAILED; tasks are never
\* removed.
C6_StatusMonotonic ==
    [][/\ Len(tasks') >= Len(tasks)
       /\ \A i \in 1..Len(tasks) :
            /\ tasks'[i].id = tasks[i].id
            /\ \/ tasks'[i].status = tasks[i].status
               \/ tasks[i].status = PENDING /\ tasks'[i].status = IN_PROGRESS
               \/ tasks[i].status = IN_PROGRESS /\ tasks'[i].status \in Terminal]_vars

\* C6 witness: one task ended COMPLETED and another one FAILED.
C6_Witness ==
    /\ \E i \in 1..Len(tasks) : tasks[i].status = COMPLETED
    /\ \E i \in 1..Len(tasks) : tasks[i].status = FAILED

\* C7: iteration_count never exceeds max_iterations; it counts the executed
\* tasks, one each; no task is in execution once the budget is used up.
C7_IterationBudget ==
    /\ iteration_count <= MaxIterations
    /\ iteration_count = Len(Executed)
    /\ iteration_count =
          Cardinality({i \in 1..Len(tasks) : tasks[i].status \in Terminal})
    /\ pc = "executing" => iteration_count < MaxIterations

\* C7 witness: the budget is used up while a runnable task is left, and the
\* next call has ended the session.
C7_Witness ==
    /\ iteration_count = MaxIterations
    /\ RunnableSet(tasks) # {}
    /\ ~should_continue

\* C8 (as claimed): a terminated session with staged files has called
\* commit_and_push_bundle exactly once.
C8_ExactlyOneCommit ==
    (~should_continue /\ staged_files # <<>>) => commits = 1

\* C9 (as claimed): a call entered with the budget used up and files staged
\* ends the session and the staged files are committed.
C9_BudgetStillCommits ==
    (/\ log # <<>>
     /\ log[Len(log)].kind = "max_iterations"
     /\ staged_files # <<>>) => (~should_continue /\ commits >= 1)

\* a sequence without repetition
NoDuplicates(s) == \A i, j \in 1..Len(s) : s[i] = s[j] => i = j

IsPrefix(s, t) == Len(s) <= Len(t) /\ \A i \in 1..Len(s) : s[i] = t[i]

FeedbackTasksOf(ts, comment_id) ==
    {i \in 1..Len(ts) : ts[i].metadata.is_pr_feedback
                        /\ ts[i].originating_comment_id = comment_id}

\* C10: processed_comment_ids holds no id twice, each comment id has at most
\* one feedback task, and every step only appends to processed_comment_ids.
C10_ProcessedOnce ==
    /\ [](/\ NoDuplicates(active_pr.processed_comment_ids)
          /\ \A c \in 1..Len(forge_comments) :
                Cardinality(FeedbackTasksOf(tasks, forge_comments[c].id)) <= 1)
    /\ [][IsPrefix(active_pr.processed_comment_ids,
                   active_pr'.processed_comment_ids)]_vars

\* C10 witness: a comment was processed and acknowledged in one call, and a
\* later call has polled the pull request again.
C10_Witness ==
    /\ Len(active_pr.processed_comment_ids) = 2
    /\ Cardinality(FeedbackTasksOf(tasks, 1)) = 1
    /\ iteration_count = 2
    /\ pr_state = "open"

\* the comments on the forge that the monitor has not processed yet
Unprocessed ==
    {c \in 1..Len(forge_comments) :
        forge_comments[c].id \notin Range(active_pr.processed_comment_ids)}

\* the step is a poll of the monitor that went through the comments
Polled == active_pr'.processed_comment_ids # active_pr.processed_comment_ids

\* C11: in a step in which the monitor goes through the comments, each
\* unprocessed comment of another author gets exactly one new task: HIGH,
\* PENDING (or already selected by the scheduler of the same call),
\* skip_branch_creation set and pr_branch the head ref of the active PR; the
\* comment's id and the ids of the acknowledgements posted in the step are in
\* processed_comment_ids afterwards.
C11_FeedbackTaskPerComment ==
    [][Polled =>
        /\ \A c \in Unprocessed :
            forge_comments[c].author # AgentLogin =>
                LET new == {i \in (Len(tasks) + 1)..Len(tasks') :
                              tasks'[i].originating_comment_id = forge_comments[c].id}
                IN  /\ Cardinality(new) = 1
                    /\ \A i \in new :
                        /\ tasks'[i].priority = HIGH
                        /\ \/ tasks'[i].status = PENDING
                           \/ /\ tasks'[i].status = IN_PROGRESS
                              /\ pc' = "executing" /\ next_task' = tasks'[i].id
                        /\ tasks'[i].metadata.is_pr_feedback
                        /\ tasks'[i].metadata.skip_branch_creation
                        /\ tasks'[i].metadata.pr_branch = active_pr'.head_ref
                        /\ tasks'[i].metadata.pr_branch = DetectedPR.head_ref
                    /\ forge_comments[c].id \in Range(active_pr'.processed_comment_ids)
        /\ \A k \in (Len(forge_comments) + 1)..Len(forge_comments') :
            forge_comments'[k].id \in Range(active_pr'.processed_comment_ids)]_vars

\* C11 witness: a reviewer's comment has a PENDING feedback task, and its id
\* and the id of the acknowledgement posted for it are both processed.
C11_Witness ==
    \E c \in 1..Len(forge_comments), a \in 1..Len(forge_comments) :
        /\ forge_comments[c].author = ReviewerLogin
        /\ forge_comments[a].body = AckBody
        /\ {forge_comments[c].id, forge_comments[a].id}
                \subseteq Range(active_pr.processed_comment_ids)
        /\ \E i \in FeedbackTasksOf(tasks, forge_comments[c].id) :
                tasks[i].status = PENDING /\ tasks[i].metadata.pr_branch = "feature"

\* author of the comment a feedback task answers
AuthorOf(comment_id) ==
    LET c == CHOOSE c \in 1..Len(forge_comments) : forge_comments[c].id = comment_id
    IN  forge_comments[c].author

\* C12 (as claimed): no feedback task answers a comment written by the agent
\* itself.
C12_NeverReactsToOwnComment ==
    \A i \in 1..Len(tasks) :
        tasks[i].metadata.is_pr_feedback =>
            AuthorOf(tasks[i].originating_comment_id) # AgentLogin

\* C12, the part that holds: no feedback task answers an acknowledgement.
C12_NeverReactsToOwnAck ==
    \A i \in 1..Len(tasks) :
        tasks[i].metadata.is_pr_feedback =>
            \A c \in 1..Len(forge_comments) :
                forge_comments[c].id = tasks[i].originating_comment_id =>
                    forge_comments[c].body # AckBody

Parentless(ts) == {i \in 1..Len(ts) : ts[i].parent_task_id = NoTask}

Feedback(ts) == {i \in 1..Len(ts) : ts[i].metadata.is_pr_feedback}

ChildrenOf(ts, id) == {i \in 1..Len(ts) : ts[i].parent_task_id = id}

\* C13 (as claimed): in a session with tasks exactly one task has no
\* parent_task_id, and it is IN_PROGRESS as long as a child of it is
\* neither COMPLETED nor FAILED.
C13_ExactlyOneParentless ==
    tasks # <<>> =>
        /\ Cardinality(Parentless(tasks)) = 1
        /\ \A r \in Parentless(tasks) :
            (\E i \in ChildrenOf(tasks, tasks[r].id) : tasks[i].status \notin Terminal)
                => tasks[r].status = IN_PROGRESS

\* C13 (amended): exactly one task that is not a feedback task has no
\* parent_task_id: the root, first of the list, parent of every other task
\* of the plan, and IN_PROGRESS in every state; the feedback tasks have no
\* parent_task_id.
C13_OneRootOfThePlan ==
    tasks # <<>> =>
        /\ Parentless(tasks) \ Feedback(tasks) = {1}
        /\ tasks[1].status = IN_PROGRESS
        /\ \A i \in 1..Len(tasks) :
            /\ i \notin Feedback(tasks) /\ i # 1 => tasks[i].parent_task_id = tasks[1].id
            /\ i \in Feedback(tasks) => tasks[i].parent_task_id = NoTask

\* C13 witness: the children of the root and a feedback task have all ended,
\* and the root is still IN_PROGRESS.
C13_Witness ==
    /\ Len(tasks) >= 3
    /\ Feedback(tasks) # {}
    /\ ChildrenOf(tasks, tasks[1].id) # {}
    /\ \A i \in 2..Len(tasks) : tasks[i].status \in Terminal
    /\ tasks[1].status = IN_PROGRESS

\* the ids a task depends on, directly or through other tasks
RECURSIVE DepClosure(_, _, _)
DepClosure(ts, ids, k) ==
    IF k = 0 THEN ids
    ELSE DepClosure(ts,
            ids \cup UNION {ts[i].dependencies : i \in {j \in 1..Len(ts) : ts[j].id \in ids}},
            k - 1)

TransitiveDeps(ts, i) == DepClosure(ts, ts[i].dependencies, Len(ts))

\* C14 (as claimed): the dependencies of the tasks of a plan form a DAG: no
\* task depends on itself, directly or through other tasks.
C14_DependenciesFormDAG ==
    \A i \in 1..Len(tasks) : tasks[i].id \notin TransitiveDeps(tasks, i)

\* the last entry of the log is an execution that failed
FailedLast ==
    log # <<>> /\ log[Len(log)].kind = "executed" /\ ~log[Len(log)].success

DependsOnFailed(ts, i) ==
    \E j \in 1..Len(ts) : ts[j].id \in TransitiveDeps(ts, i) /\ ts[j].status = FAILED

\* C16: a task that depends on a FAILED task, directly or through other
\* tasks, is PENDING or BLOCKED, was never selected (its iteration is 0, no
\* execution of it is logged, it is not the task in execution).
C16_DependentsOfFailedNeverRun ==
    \A i \in 1..Len(tasks) :
        DependsOnFailed(tasks, i) =>
            /\ tasks[i].status \in {PENDING, BLOCKED}
            /\ tasks[i].iteration = 0
            /\ \A k \in 1..Len(Executed) : Executed[k].task # tasks[i].id
            /\ pc = "executing" => next_task # tasks[i].id

\* C16 witness: the session has ended with a FAILED task, a task that
\* depends on it and a task that depends on that one, both PENDING.
C16_Witness ==
    /\ ~should_continue
    /\ \E i, j, k \in 1..Len(tasks) :
        /\ tasks[k].status = FAILED
        /\ tasks[j].dependencies = {tasks[k].id} /\ tasks[j].status = PENDING
        /\ tasks[i].dependencies = {tasks[j].id} /\ tasks[i].status = PENDING

\* C17: when the generator raises during planning, decompose returns the
\* decomposition with main_task = user_request and subtasks = [user_request],
\* and planning ends with the tasks of it: the root and one subtask.
C17_FallbackOnRaise ==
    plan_result.kind = "raise" =>
        /\ decomposition.main_task = user_request
        /\ decomposition.subtasks = <<user_request>>
        /\ Len(tasks) = 2
        /\ tasks[1].description = user_request
        /\ tasks[2].description = user_request
        /\ tasks[2].status = PENDING

\* C17 witness: planning has ended on a generator that raised.
C17_Witness ==
    /\ plan_result.kind = "raise"
    /\ user_request = "fix"
    /\ Len(tasks) = 2
    /\ decomposition.subtasks = <<"fix">>

\* C18: when the planner's generator answers {}, the plan has exactly one
\* subtask, the user request; at most one execution takes place, after it no
\* call can select a task, and a session that has ended has executed exactly
\* one task and, with no file staged, has made no commit.
C18_EmptyAnswerOneTask ==
    plan_result = EmptyDict =>
        /\ decomposition.subtasks = <<user_request>>
        /\ Len(tasks) = 2
        /\ tasks[2].description = user_request
        /\ tasks[2].parent_task_id = tasks[1].id
        /\ Len(Executed) <= 1
        /\ (Len(Executed) = 1 /\ pc = "idle") => ~ENABLED CycleStart
        /\ ~should_continue =>
            /\ Len(Executed) = 1
            /\ Executed[1].task = tasks[2].id
            /\ staged_files = <<>> => commits = 0

\* C18 witness: such a session has ended after one execution that wrote no
\* file: nothing staged, no commit.
C18_Witness ==
    /\ plan_result = EmptyDict
    /\ ~should_continue
    /\ Len(Executed) = 1 /\ Executed[1].success
    /\ staged_files = <<>>
    /\ commits = 0

OpNames(ops) == [k \in 1..Len(ops) |-> ops[k].op]

\* C19: the git commands of the conflict setup are run only in a call that
\* has selected a task with is_conflict_resolution, before the executor is
\* invoked on it: checkout of pr_branch (unless already there), fetch, merge,
\* in this order, ending at the first command that fails; and every selected
\* task reaches the executor, whatever the setup did.
C19_ConflictSetupBeforeExecutor ==
    /\ pc # "executing" => git_ops = <<>>
    /\ pc = "executing" =>
        LET task == tasks[PositionOf(tasks, next_task)]
        IN  /\ ~task.metadata.is_conflict_resolution => git_ops = <<>>
            /\ task.metadata.is_conflict_resolution =>
                /\ \/ IsPrefix(OpNames(git_ops), <<"checkout", "fetch", "merge">>)
                   \/ IsPrefix(OpNames(git_ops), <<"fetch", "merge">>)
                /\ \A k \in 1..(Len(git_ops) - 1) : git_ops[k].ok
                /\ \A k \in 1..Len(git_ops) :
                    git_ops[k].op = "checkout" => git_ops[k].arg = task.metadata.pr_branch
                /\ (git_ops # <<>> /\ \A k \in 1..Len(git_ops) : git_ops[k].ok)
                    => git_ops[Len(git_ops)].op = "merge"
    /\ \A i \in 2..Len(tasks) :
        tasks[i].status = IN_PROGRESS => (pc = "executing" /\ next_task = tasks[i].id)

\* C19 witness: the executor works on a conflict-resolution task although
\* the checkout of the setup failed.
C19_Witness ==
    /\ pc = "executing"
    /\ tasks[PositionOf(tasks, next_task)].metadata.is_conflict_resolution
    /\ Len(git_ops) = 1
    /\ git_ops[1].op = "checkout" /\ ~git_ops[1].ok

\* C20: for every block the applier has handled, fix_code was called at most
\* once, and only after a first syntax check that failed; and every file
\* that was written is in staged_files and the task is COMPLETED, whatever
\* the repair and the re-check gave.
C20_OneRepairThenStaged ==
    \A k \in 1..Len(syntax_report) :
        /\ syntax_report[k].fix_code_calls <= 1
        /\ syntax_report[k].fix_code_calls = 1 => syntax_report[k].first_check = "invalid"
        /\ syntax_report[k].written =>
            /\ <<next_task, k>> \in Range(staged_files)
            /\ tasks[PositionOf(tasks, next_task)].status = COMPLETED

\* C20 witness: a file whose repair did not help (the re-check failed) is
\* staged after one call of fix_code, and the task is COMPLETED.
C20_Witness ==
    \E k \in 1..Len(syntax_report) :
        /\ syntax_report[k].recheck = "invalid"
        /\ syntax_report[k].fix_code_calls = 1
        /\ <<next_task, k>> \in Range(staged_files)
        /\ tasks[PositionOf(tasks, next_task)].status = COMPLETED

\* the step is a call in which the monitor appended feedback tasks
MonitorAppended == tasks # <<>> /\ Len(tasks') > Len(tasks)

\* the step ends a call in which the executor ran
ExecutorReturned == pc = "executing" /\ pc' = "idle"

\* C21: the steps of a call happen in the order monitor, scheduler, executor,
\* side effects, status update.  A call in which the monitor appends tasks
\* goes on to the scheduler, which sees them: it selects a task, and each new
\* task is the selected one or stands behind it (lower priority, or the same
\* and created later).  The monitor acts only before the executor is called;
\* files are staged, a task ends and the iteration is counted only when the
\* executor has returned, for the one task that it was called on.
C21_MonitorSchedulerExecutorOrder ==
    [][/\ MonitorAppended =>
            /\ pc = "idle" /\ pc' = "executing"
            /\ next_task' # NoTask
            /\ LET sel == PositionOf(tasks', next_task')
               IN  /\ tasks'[sel].status = IN_PROGRESS
                   /\ tasks'[sel].iteration = iteration_count + 1
                   /\ \A i \in (Len(tasks) + 1)..Len(tasks') :
                        \/ i = sel
                        \/ /\ tasks'[i].status = PENDING
                           /\ \/ Rank(tasks'[sel].priority) < Rank(tasks'[i].priority)
                              \/ /\ Rank(tasks'[sel].priority) = Rank(tasks'[i].priority)
                                 /\ sel < i
       /\ (tasks # <<>> /\ active_pr' # active_pr) => pc = "idle"
       /\ (\/ staged_files' # staged_files
           \/ iteration_count' # iteration_count /\ tasks # <<>>
           \/ completed_tasks' # completed_tasks /\ tasks # <<>>
           \/ \E i \in 1..Len(tasks) :
                tasks[i].status \notin Terminal /\ tasks'[i].status \in Terminal)
            => /\ ExecutorReturned
               /\ tasks[PositionOf(tasks, next_task)].status = IN_PROGRESS
               /\ \A i \in 1..Len(tasks) :
                    tasks'[i].status # tasks[i].status => tasks[i].id = next_task
               /\ \A k \in (Len(staged_files) + 1)..Len(staged_files') :
                    staged_files'[k][1] = next_task]_vars

\* C21 witness: the first call of the session found a reviewer's comment,
\* and the feedback task made for it is the task in execution in that same
\* call, ahead of a pending subtask of the plan.
C21_Witness ==
    /\ pc = "executing" /\ iteration_count = 0
    /\ tasks[PositionOf(tasks, next_task)].metadata.is_pr_feedback
    /\ tasks[PositionOf(tasks, next_task)].iteration = 1
    /\ tasks[2].status = PENDING

\* the tasks that were selected at some time: all but the root and the
\* PENDING ones
Selected(ts) == {i \in 2..Len(ts) : ts[i].status # PENDING}

\* C22: the iteration of a task changes only in the step that moves it from
\* PENDING to IN_PROGRESS, from 0 to iteration_count + 1, and that step
\* always sets it; the selected tasks have pairwise different iterations,
\* all at least 1, and the k-th execution of the session is the one of the
\* task with iteration k.
C22_IterationAssignedOnce ==
    /\ [][\A i \in 1..Len(tasks) :
            /\ tasks'[i].iteration # tasks[i].iteration =>
                /\ tasks[i].status = PENDING /\ tasks'[i].status = IN_PROGRESS
                /\ tasks[i].iteration = 0
            /\ (tasks[i].status = PENDING /\ tasks'[i].status = IN_PROGRESS) =>
                tasks'[i].iteration = iteration_count + 1]_vars
    /\ [](/\ \A i \in 1..Len(tasks) :
                tasks[i].iteration # 0 <=> i \in Selected(tasks)
          /\ \A i, j \in Selected(tasks) :
                tasks[i].iteration = tasks[j].iteration => i = j
          /\ \A k \in 1..Len(Executed) :
                /\ Executed[k].iteration = k
                /\ tasks[PositionOf(tasks, Executed[k].task)].iteration = k
          /\ pc = "executing" =>
                tasks[PositionOf(tasks, next_task)].iteration = Len(Executed) + 1)

\* C22 witness: two tasks were executed, the one created later first; it
\* has iteration 1 and the other one iteration 2.
C22_Witness ==
    /\ Len(tasks) >= 3 /\ Len(Executed) = 2
    /\ tasks[3].iteration = 1 /\ tasks[2].iteration = 2
    /\ Executed[1].task = tasks[3].id /\ Executed[2].task = tasks[2].id

\* the step is a call of run_iteration_cycle, made with budget left, that
\* has an active pull request which is not open on the forge
CallOnClosedPR ==
    /\ calls' = calls + 1
    /\ ~BudgetExhausted(iteration_count)
    /\ active_pr'.present /\ pr_state = "closed"

\* C23 (as claimed): when get_pr answers and the active PR is not open, the
\* monitor does nothing (no acknowledgement, no task, processed_comment_ids
\* as they were); and the rest of such a call runs: a task is handed to the
\* executor, or the session is ended with should_continue = false.  (A call
\* on a closed PR in which get_pr does not answer goes on to the scheduler
\* as well.)
C23_NotOpenStillSchedules ==
    /\ [](\A in \in ForgeAnswers :
            (active_pr.present /\ in.forge_ok /\ in.pr_ok /\ pr_state # "open") =>
                Monitor(active_pr, in).st =
                    [tasks |-> tasks, active_pr |-> active_pr,
                     forge_comments |-> forge_comments])
    /\ [][CallOnClosedPR => (pc' = "executing" \/ ~should_continue')]_vars

\* C27 (as claimed): a session makes at most max_iterations + 1 calls of
\* run_iteration_cycle, and after that many should_continue is false.
C27_EndsWithinBudgetCalls ==
    /\ calls <= MaxIterations + 1
    /\ (calls = MaxIterations + 1 /\ pc = "idle") => ~should_continue

\* what the monitor works on, as it is before the call
BeforeMonitor ==
    [tasks |-> tasks, active_pr |-> active_pr, forge_comments |-> forge_comments]

\* some forge call of the monitoring block fails under the answers
SomeForgeCallFails(in) ==
    ~in.forge_ok \/ ~in.user_ok \/ ~in.pr_ok \/ ~in.list_ok \/ ~in.ack_ok

\* the comments the monitor takes up under the answers
TakenUp(in) ==
    {c \in Unprocessed :
        \/ in.simulate_reviewer
        \/ forge_comments[c].author #
                (IF in.user_ok THEN AgentLogin ELSE DefaultAgentUsername)}

\* a call is made on an active PR with budget left
CallWithActivePR ==
    Callable /\ ~BudgetExhausted(iteration_count) /\ active_pr.present

----------------------------------------------------------------------------
(* The branch step of the applier *)

\* the task the applier ran on
AppliedTask == tasks[PositionOf(tasks, next_task)]

\* the applier has run on a result that succeeded
Applied == pc = "idle" /\ next_task # NoTask /\ AppliedTask.status = COMPLETED

\* C25: for a task with skip_branch_creation the applier creates no feature
\* branch and touches none, pulls nothing and forces nothing, whatever the
\* task text and the user request say; it runs no git command at all when
\* pr_branch is not set or the repository cannot be opened, and otherwise
\* reads the current branch and checks out pr_branch exactly when the
\* current branch differs from it.
C25_SkipBranchCreation ==
    (Applied /\ AppliedTask.metadata.skip_branch_creation) =>
        LET pr_branch == AppliedTask.metadata.pr_branch
        IN  /\ \A k \in 1..Len(branch_ops) :
                    /\ branch_ops[k].op \in {"active_branch", "checkout"}
                    /\ branch_ops[k].arg # FeatureBranch
                    /\ branch_ops[k].op = "checkout" =>
                            /\ k = 2
                            /\ pr_branch # ""
                            /\ branch_ops[k].arg = pr_branch
                            /\ branch_ops[1] = GitOp("active_branch",
                                                     branch_ops[1].arg, TRUE)
                            /\ branch_ops[1].arg # pr_branch
            /\ Len(branch_ops) <= 2
            /\ (pr_branch = "" => branch_ops = <<>>)
            /\ (branch_ops # <<>> => branch_ops[1].op = "active_branch")
            /\ (Len(branch_ops) = 1 /\ branch_ops[1].ok
                    => branch_ops[1].arg = pr_branch)

\* a feedback task ran while the user request asks for a pull request, and
\* the applier moved from main to the branch of the pull request
C25_Witness ==
    /\ Applied
    /\ AppliedTask.metadata.skip_branch_creation
    /\ PrIntent(AppliedTask, user_request)
    /\ user_request = "pr"
    /\ branch_ops = <<GitOp("active_branch", "main", TRUE),
                      GitOp("checkout", "feature", TRUE)>>

----------------------------------------------------------------------------
(* The loop of the applier over the extracted files *)

\* the file of the block can be written
Writable(b) == b.path = "ok" /\ b.write_ok

\* the staged paths of the run, as the positions of their blocks
RECURSIVE WrittenPaths(_, _)
WrittenPaths(report, k) ==
    IF k = 0 THEN <<>>
    ELSE WrittenPaths(report, k - 1)
            \o (IF Writable(report[k].block) THEN <<<<next_task, k>>>> ELSE <<>>)

\* C26: a file that cannot be written does not end the loop of the applier.
\* Every block of the output is handled; each file that can be written is
\* written, also after a write that failed; staged_files gets the written
\* paths, in the order of the blocks, and no other; and the task is
\* COMPLETED.
C26_WriteFailureDoesNotAbort ==
    (pc = "idle" /\ \E j \in 1..Len(syntax_report) : WriteFails(syntax_report[j].block)) =>
        /\ \A k \in 1..Len(syntax_report) :
                /\ syntax_report[k].written = Writable(syntax_report[k].block)
                /\ <<next_task, k>> \in Range(staged_files)
                        <=> Writable(syntax_report[k].block)
        /\ staged_files = WrittenPaths(syntax_report, Len(syntax_report))
        /\ AppliedTask.status = COMPLETED
        /\ next_task \in Range(completed_tasks)

\* the first file could not be written, the second was written and staged
C26_Witness ==
    /\ pc = "idle"
    /\ Len(syntax_report) = 2
    /\ WriteFails(syntax_report[1].block)
    /\ syntax_report[2].written
    /\ staged_files = <<<<next_task, 2>>>>
    /\ AppliedTask.status = COMPLETED

----------------------------------------------------------------------------
(* The root task and the end of the session *)

\* the root task of the plan: the first task of the list
RootTask == tasks[1]

\* the call that ends here found the budget used up
EndsByBudget ==
    /\ BudgetExhausted(iteration_count)
    /\ log' = Append(log, [kind |-> "max_iterations"])

\* the scheduler of the call that ends here returned no task
EndsByNoTask ==
    /\ get_next_task(tasks') = NoTask
    /\ log' = Append(log, [kind |-> "no_more_tasks"])

----------------------------------------------------------------------------
(* Feedback tasks and the scheduler *)

\* the list the scheduler of the call saw: the list after the call, with the
\* selected task still PENDING
SeenByScheduler(ts, selected) ==
    [i \in 1..Len(ts) |->
        IF ts[i].id = selected THEN [ts[i] EXCEPT !.status = PENDING] ELSE ts[i]]

\* a task that is runnable and goes before the task at position j: a
\* CRITICAL one, or a HIGH one created earlier
GoesBefore(seen, j) ==
    \E i \in 1..Len(seen) :
        /\ i # j
        /\ IsExecutable(seen[i], seen)
        /\ \/ seen[i].priority = CRITICAL
           \/ seen[i].priority = HIGH /\ i < j

\* C29: every task the monitor appends is a feedback task of priority HIGH
\* without dependencies.  The call that appended it goes on to the executor,
\* and it never selects a subtask of the plan of priority MEDIUM or LOW; the
\* new task is the one selected, marked IN_PROGRESS with the number of this
\* iteration and handed to the executor, exactly when no CRITICAL task and
\* no HIGH task created earlier is runnable.
C29_FeedbackBeforeLowerPriority ==
    [][MonitorAppended =>
        LET seen == SeenByScheduler(tasks', next_task')
            sel == PositionOf(tasks', next_task')
        IN  /\ pc' = "executing"
            /\ next_task' # NoTask
            /\ tasks'[sel].priority \in {CRITICAL, HIGH}
            /\ \A j \in (Len(tasks) + 1)..Len(tasks') :
                    /\ seen[j].metadata.is_pr_feedback
                    /\ seen[j].priority = HIGH
                    /\ seen[j].dependencies = {}
                    /\ seen[j].status = PENDING
                    /\ (next_task' = seen[j].id) <=> ~GoesBefore(seen, j)
                    /\ (next_task' = seen[j].id) =>
                            /\ tasks'[j].status = IN_PROGRESS
                            /\ tasks'[j].iteration = iteration_count + 1]_vars

\* in the first iteration the monitor's feedback task is with the executor
\* while a subtask of the plan, created before it with priority MEDIUM or
\* LOW, is still pending
C29_Witness ==
    /\ pc = "executing"
    /\ iteration_count = 0
    /\ AppliedTask.metadata.is_pr_feedback
    /\ AppliedTask.iteration = 1
    /\ \E i \in 1..Len(tasks) :
            /\ i < PositionOf(tasks, next_task)
            /\ tasks[i].status = PENDING
            /\ tasks[i].dependencies = {}
            /\ tasks[i].priority \in {MEDIUM, LOW}

----------------------------------------------------------------------------
(* completed_tasks *)

\* the tasks of the executions that succeeded, in the order of the log
RECURSIVE SucceededInLog(_)
SucceededInLog(l) ==
    IF l = <<>> THEN <<>>
    ELSE SucceededInLog(SubSeq(l, 1, Len(l) - 1))
            \o (IF l[Len(l)].kind = "executed" /\ l[Len(l)].success
                THEN <<l[Len(l)].task>> ELSE <<>>)

\* C30: completed_tasks holds exactly the ids of the COMPLETED tasks, each
\* once, in the order in which the tasks were completed (the order of the
\* executions that succeeded, which is the order of their iteration
\* numbers), and no id of a task that is FAILED, PENDING or IN_PROGRESS.
C30_CompletedTasksExact ==
    /\ Range(completed_tasks) =
            {tasks[i].id : i \in {j \in 1..Len(tasks) : tasks[j].status = COMPLETED}}
    /\ \A a, b \in 1..Len(completed_tasks) :
            a < b =>
                /\ completed_tasks[a] # completed_tasks[b]
                /\ tasks[PositionOf(tasks, completed_tasks[a])].iteration
                        < tasks[PositionOf(tasks, completed_tasks[b])].iteration
    /\ completed_tasks = SucceededInLog(log)
    /\ \A i \in 1..Len(tasks) :
            tasks[i].status \in {FAILED, PENDING, IN_PROGRESS}
                => tasks[i].id \notin Range(completed_tasks)

\* a task failed in the first iteration and another was completed in the
\* second: completed_tasks holds the second alone
C30_Witness ==
    /\ Len(completed_tasks) = 1
    /\ tasks[PositionOf(tasks, completed_tasks[1])].iteration = 2
    /\ \E i \in 1..Len(tasks) : tasks[i].status = FAILED /\ tasks[i].iteration = 1

====
